---- MODULE Spec2Model ----
(***************************************************************************)
(* Model of cancel_payments.py: the CSV progress ledger and the three-step  *)
(* pipeline of main (fetch canceled orders from Magento, look up the        *)
(* non-canceled payments in Papaya, cancel them through the Papaya API).    *)
(*                                                                         *)
(* Order ids (Magento increment_id, fixed-width digit strings) are the      *)
(* naturals 1..MaxOrders: their numeric order is the lexicographic order    *)
(* sorted() uses.  Payment ids are the integers 1..MaxPayments, as the      *)
(* Papaya database returns them; in the CSV file they are strings.          *)
(***************************************************************************)
EXTENDS Integers, Sequences, FiniteSets, TLC

\* ------------------------------------------------------------- bounds
MaxOrders == 2
MaxPayments == 3
MaxFaults == 1
MaxClock == 1

Orders == 1..MaxOrders
Payments == 1..MaxPayments

VARIABLES
    magento,                \* increment_ids the Magento query returns
    canceled,               \* Papaya payments with a 'canceled' status history row
    csvfile,                \* the ledger file: [exists, rows]
    now,                    \* the wall clock, in seconds
    pc,                     \* position of the process inside main
    config,                 \* main: config, as read from the environment
    resume_mode,            \* main: resume_mode
    canceled_orders,        \* main: canceled_orders (new run)
    pending_order_ids,      \* main: pending_order_ids (resume)
    non_canceled_payments,  \* main: non_canceled_payments, in result order
    order_to_payment_map,   \* main: order_to_payment_map
    idx,                    \* cancel_payments_via_api: position of the loop
    outcome,                \* cancel_payments_via_api: (success, message) of the call just made
    stats,                  \* cancel_payments_via_api: stats
    exit_code,              \* status passed to sys.exit, -1 while none
    fatal,                  \* main ended in its except Exception branch
    faults,                 \* kills and query failures so far
    start_file,             \* history: the ledger file when the run started
    api_called,             \* history: payments the cancel API was called for in this run
    after_done,             \* history: this run started right after a completed run, Magento unchanged
    run_parity,             \* history: number of runs started so far, modulo 2
    op,                     \* history: the ledger operation applied last
    keep_history,           \* history: whether the two histories below are recorded
    called_earlier,         \* history: payments the cancel API was called for in earlier runs
    killed_calls,           \* history: payments the killed run called the API for, until the next run ends
    unreadable              \* the bytes of the ledger file cannot be read or parsed

vars == <<magento, canceled, csvfile, now, pc, config, resume_mode, canceled_orders,
          pending_order_ids, non_canceled_payments, order_to_payment_map, idx,
          outcome, stats, exit_code, fatal, faults, start_file, api_called,
          after_done, run_parity, op, keep_history, called_earlier, killed_calls,
          unreadable>>

\* ------------------------------------------------------------- Python values
\* In-memory values of the row dictionaries: None, bool, int and str are told
\* apart, since csv.DictWriter and load_orders_from_csv convert between them.
PyNone == [kind |-> "None"]
PyBool(b) == [kind |-> "bool", b |-> b]
PyInt(n) == [kind |-> "int", n |-> n]
PyStr(s) == [kind |-> "str", s |-> s]

\* csv.DictWriter: None is written as the empty string, anything else as str(v).
CsvStr(v) ==
    CASE v.kind = "None" -> ""
      [] v.kind = "bool" -> (IF v.b THEN "True" ELSE "False")
      [] v.kind = "int" -> ToString(v.n)
      [] v.kind = "str" -> v.s

\* Python truthiness, for `not order.get('cancellation_attempted', False)`.
Truthy(v) ==
    CASE v.kind = "None" -> FALSE
      [] v.kind = "bool" -> v.b
      [] v.kind = "int" -> v.n # 0
      [] v.kind = "str" -> v.s # ""

\* `v is True`
IsTrue(v) == v.kind = "bool" /\ v.b

\* ------------------------------------------------------------- helpers
RECURSIVE SortedSeq(_)
SortedSeq(S) ==
    IF S = {} THEN <<>>
    ELSE LET m == CHOOSE x \in S : \A y \in S : x <= y
         IN <<m>> \o SortedSeq(S \ {m})

\* Every order in which a query can return the rows of S.
Orderings(S) ==
    {q \in [1..Cardinality(S) -> S] : \A i, j \in 1..Cardinality(S) : q[i] = q[j] => i = j}

SeqRange(q) == {q[i] : i \in 1..Len(q)}

NoFile == [exists |-> FALSE, rows |-> <<>>]

\* ------------------------------------------------------------- the ledger file
\* load_orders_from_csv: {} when the file does not exist; otherwise one
\* dictionary entry per order_id (a later row replaces an earlier one), with
\* requires_cancellation and cancellation_attempted converted from text.
LoadRow(row) ==
    [order_id |-> row.order_id,
     payment_id |-> PyStr(row.payment_id),
     requires_cancellation |->
        IF row.requires_cancellation \in {"True", "False"}
        THEN PyBool(row.requires_cancellation = "True")
        ELSE PyNone,
     cancellation_attempted |-> PyBool(row.cancellation_attempted = "True"),
     cancellation_status |-> row.cancellation_status,
     error_message |-> row.error_message,
     timestamp |-> row.timestamp]

load_orders_from_csv(f) ==
    IF ~f.exists THEN <<>>
    ELSE LET ids == {f.rows[i].order_id : i \in 1..Len(f.rows)}
             last(o) == CHOOSE i \in 1..Len(f.rows) :
                            /\ f.rows[i].order_id = o
                            /\ \A j \in 1..Len(f.rows) : f.rows[j].order_id = o => j <= i
         IN [o \in ids |-> LoadRow(f.rows[last(o)])]

\* save_orders_to_csv: the file is rewritten whole, one row per dictionary key
\* in sorted key order, every value converted to text.
SaveRow(order) ==
    [order_id |-> order.order_id,
     payment_id |-> CsvStr(order.payment_id),
     requires_cancellation |-> CsvStr(order.requires_cancellation),
     cancellation_attempted |-> CsvStr(order.cancellation_attempted),
     cancellation_status |-> order.cancellation_status,
     error_message |-> order.error_message,
     timestamp |-> order.timestamp]

save_orders_to_csv(orders_data) ==
    LET keys == SortedSeq(DOMAIN orders_data)
    IN [exists |-> TRUE,
        rows |-> [i \in 1..Len(keys) |-> SaveRow(orders_data[keys[i]])]]

\* update_order_in_csv: load, return when the order is not in the file, else
\* apply the updates (a dictionary of some of the row's fields), stamp the row
\* and save.
UpdatedRow(order, updates, t) ==
    [k \in DOMAIN order |->
        IF k = "timestamp" THEN t
        ELSE IF k \in DOMAIN updates THEN updates[k]
        ELSE order[k]]

\* faulty variant: the updated row is appended to the file
update_order_appending(f, order_id, updates, t) ==
    LET orders_data == load_orders_from_csv(f)
    IN IF order_id \notin DOMAIN orders_data THEN f
       ELSE [exists |-> TRUE,
             rows |-> Append(f.rows, SaveRow(UpdatedRow(orders_data[order_id], updates, t)))]

\* faulty variant: every row gets the time of the update
update_order_stamping_all(f, order_id, updates, t) ==
    LET orders_data == load_orders_from_csv(f)
    IN IF order_id \notin DOMAIN orders_data THEN f
       ELSE save_orders_to_csv(
                [o \in DOMAIN orders_data |->
                    IF o = order_id THEN UpdatedRow(orders_data[o], updates, t)
                    ELSE [orders_data[o] EXCEPT !.timestamp = t]])

\* update_order_in_csv as the source has it
update_order_in_csv(f, order_id, updates, t) ==
    LET orders_data == load_orders_from_csv(f)
    IN IF order_id \notin DOMAIN orders_data THEN f
       ELSE save_orders_to_csv(
                [orders_data EXCEPT ![order_id] = UpdatedRow(@, updates, t)])

\* faulty variant: every order that requires cancellation is selected again, attempted or not
get_pending_orders_retrying(f) ==
    LET orders_data == load_orders_from_csv(f)
    IN {o \in DOMAIN orders_data : IsTrue(orders_data[o].requires_cancellation)}

\* get_pending_orders_from_csv: cancellation_attempted is false and
\* requires_cancellation is True.
get_pending_orders_from_csv(f) ==
    LET orders_data == load_orders_from_csv(f)
    IN {o \in DOMAIN orders_data :
            /\ ~Truthy(orders_data[o].cancellation_attempted)
            /\ IsTrue(orders_data[o].requires_cancellation)}

\* ------------------------------------------------------------- Magento (step 1)
\* get_canceled_orders_from_magento, its ledger effect: when the query returned
\* at least one increment_id, a dictionary holding one initial row per returned
\* order is saved to the file (nothing is loaded first).
InitialRow(order_id, t) ==
    [order_id |-> order_id,
     payment_id |-> PyNone,
     requires_cancellation |-> PyNone,
     cancellation_attempted |-> PyBool(FALSE),
     cancellation_status |-> "PENDING",
     error_message |-> "",
     timestamp |-> t]

get_canceled_orders_from_magento(f, increment_ids, t) ==
    IF increment_ids # {}
    THEN save_orders_to_csv([o \in increment_ids |-> InitialRow(o, t)])
    ELSE f

\* ------------------------------------------------------------- Papaya (step 2)
\* payment_information: the order (client_order_id) each payment belongs to.
\* Payments 1 and 2 belong to order 1, payment p > 2 to order p - 1.
ClientOrderId(p) == IF p <= 2 THEN 1 ELSE p - 1

\* The rows the Papaya query selects: payments of the given orders with no
\* 'canceled' row in payment_status_history.
PapayaQuery(order_ids, canceled_now) ==
    {p \in Payments : ClientOrderId(p) \in order_ids /\ p \notin canceled_now}

\* order_to_payment_map = {row['client_order_id']: row['payment_id'] for row in results}:
\* for an order with several rows the last row wins.
OrderToPaymentMap(results) ==
    LET os == {ClientOrderId(results[i]) : i \in 1..Len(results)}
        last(o) == CHOOSE i \in 1..Len(results) :
                       /\ ClientOrderId(results[i]) = o
                       /\ \A j \in 1..Len(results) : ClientOrderId(results[j]) = o => j <= i
    IN [o \in os |-> results[last(o)]]

\* payment_to_order_map = {v: k for k, v in order_to_payment_map.items()}
PaymentToOrderMap(o2p) ==
    LET ps == {o2p[o] : o \in DOMAIN o2p}
    IN [p \in ps |-> CHOOSE o \in DOMAIN o2p : o2p[o] = p]

\* get_non_canceled_payments_from_papaya, its ledger effect: every queried
\* order that has a row in the file is marked as requiring cancellation (with
\* the payment id of the map) or as NOT_REQUIRED, and the file is saved.
\* faulty variant: the payment id of the map is not written to the row
PapayaRowWithoutPaymentId(order, order_id, o2p, t) ==
    IF order_id \in DOMAIN o2p
    THEN [order EXCEPT !.requires_cancellation = PyBool(TRUE),
                       !.cancellation_status = "PENDING",
                       !.timestamp = t]
    ELSE [order EXCEPT !.payment_id = PyStr(""),
                       !.requires_cancellation = PyBool(FALSE),
                       !.cancellation_status = "NOT_REQUIRED",
                       !.timestamp = t]

\* faulty variant: the payment id of an order without a payment is kept
PapayaRowKeepingPaymentId(order, order_id, o2p, t) ==
    IF order_id \in DOMAIN o2p
    THEN [order EXCEPT !.payment_id = PyInt(o2p[order_id]),
                       !.requires_cancellation = PyBool(TRUE),
                       !.cancellation_status = "PENDING",
                       !.timestamp = t]
    ELSE [order EXCEPT !.requires_cancellation = PyBool(FALSE),
                       !.cancellation_status = "NOT_REQUIRED",
                       !.timestamp = t]

\* faulty variant: the row of an order without a payment is left as it was
PapayaRowLeavingUnpaid(order, order_id, o2p, t) ==
    IF order_id \in DOMAIN o2p
    THEN [order EXCEPT !.payment_id = PyInt(o2p[order_id]),
                       !.requires_cancellation = PyBool(TRUE),
                       !.cancellation_status = "PENDING",
                       !.timestamp = t]
    ELSE order

\* the row of a queried order after step 2
PapayaRow(order, order_id, o2p, t) ==
    IF order_id \in DOMAIN o2p
    THEN [order EXCEPT !.payment_id = PyInt(o2p[order_id]),
                       !.requires_cancellation = PyBool(TRUE),
                       !.cancellation_status = "PENDING",
                       !.timestamp = t]
    ELSE [order EXCEPT !.payment_id = PyStr(""),
                       !.requires_cancellation = PyBool(FALSE),
                       !.cancellation_status = "NOT_REQUIRED",
                       !.timestamp = t]

\* faulty variant: every row of the file is updated, queried or not
PapayaUpdateAllRows(f, order_ids, o2p, t) ==
    LET orders_data == load_orders_from_csv(f)
    IN save_orders_to_csv(
           [o \in DOMAIN orders_data |-> PapayaRow(orders_data[o], o, o2p, t)])

\* faulty variant: only the row of the first queried order is rewritten
PapayaUpdateFirstOrder(f, order_ids, o2p, t) ==
    LET orders_data == load_orders_from_csv(f)
    IN save_orders_to_csv(
           [o \in DOMAIN orders_data |->
               IF o \in order_ids /\ \A x \in order_ids : o <= x
               THEN PapayaRow(orders_data[o], o, o2p, t)
               ELSE orders_data[o]])

\* the rows of the queried orders are rewritten, the others kept
get_non_canceled_payments_from_papaya(f, order_ids, o2p, t) ==
    LET orders_data == load_orders_from_csv(f)
    IN save_orders_to_csv(
           [o \in DOMAIN orders_data |->
               IF o \in order_ids THEN PapayaRow(orders_data[o], o, o2p, t)
               ELSE orders_data[o]])

\* ------------------------------------------------------------- Papaya API (step 3)
\* What requests.post can do: answer with a status code and a body that is or
\* is not JSON, time out, or raise another RequestException.  text is the body
\* (str(e) for an exception), parsed is str(response.json()) of a JSON body.
Responses ==
    {[exc |-> "", status_code |-> 200, is_json |-> TRUE, text |-> "{}", parsed |-> "{}"],
     [exc |-> "", status_code |-> 500, is_json |-> TRUE, text |-> "null", parsed |-> "None"],
     [exc |-> "", status_code |-> 500, is_json |-> FALSE, text |-> "boom", parsed |-> ""],
     [exc |-> "Timeout", status_code |-> 0, is_json |-> FALSE, text |-> "", parsed |-> ""],
     [exc |-> "RequestException", status_code |-> 0, is_json |-> FALSE,
      text |-> "refused", parsed |-> ""]}

\* faulty variant: every status code from 200 to 299 counts as a success
cancel_payment_accepting_2xx(response) ==
    IF response.exc = "Timeout"
    THEN [success |-> FALSE, message |-> "Request timeout"]
    ELSE IF response.exc # ""
    THEN [success |-> FALSE, message |-> "Request error: " \o response.text]
    ELSE IF response.status_code \in 200..299
    THEN [success |-> TRUE, message |-> "Success"]
    ELSE [success |-> FALSE,
          message |-> "API returned status " \o ToString(response.status_code)
                      \o ": " \o (IF response.is_json THEN response.parsed
                                   ELSE response.text)]

\* cancel_payment_via_api: (success, message)
cancel_payment_via_api(response) ==
    IF response.exc = "Timeout"
    THEN [success |-> FALSE, message |-> "Request timeout"]
    ELSE IF response.exc # ""
    THEN [success |-> FALSE, message |-> "Request error: " \o response.text]
    ELSE IF response.status_code = 200
    THEN [success |-> TRUE, message |-> "Success"]
    ELSE [success |-> FALSE,
          message |-> "API returned status " \o ToString(response.status_code)
                      \o ": " \o (IF response.is_json THEN response.parsed
                                   ELSE response.text)]

\* faulty variant: the message of the call is left out
UpdatesWithoutMessage(result) ==
    [cancellation_attempted |-> PyBool(TRUE),
     cancellation_status |-> IF result.success THEN "SUCCESS" ELSE "FAILED",
     error_message |-> ""]

\* The updates dictionary cancel_payments_via_api writes after a call.
Updates(result) ==
    [cancellation_attempted |-> PyBool(TRUE),
     cancellation_status |-> IF result.success THEN "SUCCESS" ELSE "FAILED",
     error_message |-> IF result.success THEN "" ELSE result.message]

\* faulty variant: the outcome is written to the order the payment belongs
\* to, whether or not the payment is the one recorded for that order
RecordOutcomeForOrderOfPayment(f, payment_id, p2o, result, t) ==
    update_order_in_csv(f, ClientOrderId(payment_id), Updates(result), t)

\* cancel_payments_via_api, the ledger write after the call for payment_id:
\* made only when the payment is a key of payment_to_order_map.
RecordOutcome(f, payment_id, p2o, result, t) ==
    IF payment_id \in DOMAIN p2o
    THEN update_order_in_csv(f, p2o[payment_id], Updates(result), t)
    ELSE f

\* stats after one more call
CountOutcome(st, payment_id, result) ==
    IF result.success
    THEN [st EXCEPT !.success = @ + 1]
    ELSE [st EXCEPT !.failed = @ + 1,
                    !.errors = Append(@, [payment_id |-> payment_id, error |-> result.message])]

\* main, final statistics: the number of FAILED rows decides the exit status.
FailedCount(f) ==
    LET orders_data == load_orders_from_csv(f)
    IN Cardinality({o \in DOMAIN orders_data : orders_data[o].cancellation_status = "FAILED"})

ExitStatus(f) == IF FailedCount(f) > 0 THEN 1 ELSE 0

\* ------------------------------------------------------------- configuration
\* A date setting: the order of its fields and whether month and day are
\* written with two digits ("2024-01-05") or not ("2024-1-5").
Date(fields, padded) == [fields |-> fields, padded |-> padded]

\* datetime.strptime(value, '%Y-%m-%d'): %m and %d match one or two digits.
strptime(date) == IF date.fields = "ymd" THEN "ok" ELSE "ValueError"

\* What load_configuration looks at in the environment: whether the two port
\* settings are integers, which required settings are missing or empty, and
\* the two dates.
ValidConfig ==
    [ports |-> "int", missing |-> {},
     date_from |-> Date("ymd", TRUE), date_to |-> Date("ymd", TRUE)]

NoConfig ==
    [ports |-> "", missing |-> {},
     date_from |-> Date("", FALSE), date_to |-> Date("", FALSE)]

Configs ==
    {ValidConfig,
     [ValidConfig EXCEPT !.ports = "text"],
     [ValidConfig EXCEPT !.missing = {"api.url"}],
     [ValidConfig EXCEPT !.date_from = Date("dmy", TRUE)],
     [ValidConfig EXCEPT !.date_to = Date("dmy", TRUE)]}

\* Environments whose dates have the fields in the order of YYYY-MM-DD but a
\* month or day of one digit.
UnpaddedConfigs ==
    {[ValidConfig EXCEPT !.date_from = Date("ymd", FALSE)],
     [ValidConfig EXCEPT !.date_to = Date("ymd", FALSE)]}

\* load_configuration: "ok" when it returns the config, else the exception it
\* raises (ports first, then the required settings, then the dates).
load_configuration(env) ==
    IF env.ports # "int" THEN "ValueError"
    ELSE IF env.missing # {} THEN "ValueError"
    ELSE IF strptime(env.date_from) # "ok" THEN "ValueError"
    ELSE IF strptime(env.date_to) # "ok" THEN "ValueError"
    ELSE "ok"

\* ------------------------------------------------------------- main
NoOutcome == [success |-> FALSE, message |-> ""]
NoStats == [total |-> 0, success |-> 0, failed |-> 0, errors |-> <<>>]
NoOp == [name |-> "", order_ids |-> {}, order_id |-> 0, updates |-> <<>>, before |-> NoFile]

Running == {"fetch", "lookup", "call", "record", "summary"}

\* the order ids main passes to step 2
LookupOrderIds == IF resume_mode THEN pending_order_ids ELSE canceled_orders

\* The state before the first run: no ledger file, no process.
Boot ==
    /\ magento \in SUBSET Orders
    /\ canceled \in SUBSET Payments
    /\ csvfile = NoFile
    /\ now = 0
    /\ pc = "idle"
    /\ config = NoConfig
    /\ resume_mode = FALSE
    /\ canceled_orders = {}
    /\ pending_order_ids = {}
    /\ non_canceled_payments = <<>>
    /\ order_to_payment_map = <<>>
    /\ idx = 0
    /\ outcome = NoOutcome
    /\ stats = NoStats
    /\ exit_code = -1
    /\ fatal = FALSE
    /\ faults = 0
    /\ start_file = NoFile
    /\ api_called = {}
    /\ after_done = FALSE
    /\ run_parity = 0
    /\ op = NoOp
    /\ called_earlier = {}
    /\ killed_calls = {}
    /\ unreadable = FALSE

Init == Boot /\ keep_history = FALSE

\* main, lines 458-502: the process starts; resume_mode is whether the CSV file
\* exists.  In resume mode the pending orders are read from the file and, when
\* there is none, the summary is logged and the process exits with status 0.
\* load_orders_from_csv, lines 162-164, raises again what reading the file
\* raised: main logs it as fatal and exits with status 1.
LoadRaises == csvfile.exists /\ unreadable

\* faulty variant: a run over an existing file fetches the canceled orders
\* again when Magento has an order the file does not
StartWithRefetching(env) ==
    LET refetch == csvfile.exists /\ ~LoadRaises
                   /\ magento \ DOMAIN load_orders_from_csv(csvfile) # {}
    IN
    /\ pc \in {"idle", "done"}
    /\ load_configuration(env) = "ok"
    /\ config' = env
    /\ resume_mode' = (csvfile.exists /\ ~refetch)
    /\ canceled_orders' = {}
    /\ pending_order_ids' =
          IF csvfile.exists /\ ~LoadRaises /\ ~refetch
          THEN get_pending_orders_from_csv(csvfile) ELSE {}
    /\ non_canceled_payments' = <<>>
    /\ order_to_payment_map' = <<>>
    /\ idx' = 0
    /\ outcome' = NoOutcome
    /\ stats' = NoStats
    /\ fatal' = LoadRaises
    /\ IF LoadRaises
       THEN pc' = "done" /\ exit_code' = 1
       ELSE IF csvfile.exists /\ ~refetch
       THEN IF get_pending_orders_from_csv(csvfile) = {}
            THEN pc' = "done" /\ exit_code' = 0
            ELSE pc' = "lookup" /\ exit_code' = -1
       ELSE pc' = "fetch" /\ exit_code' = -1
    /\ start_file' = csvfile
    /\ api_called' = {}
    /\ after_done' = (pc = "done" /\ ~fatal)
    /\ run_parity' = 1 - run_parity
    /\ called_earlier' = IF keep_history THEN called_earlier \cup api_called ELSE {}
    /\ killed_calls' = IF pc = "done" /\ load_configuration(config) = "ok"
                       THEN {} ELSE killed_calls
    /\ UNCHANGED <<magento, canceled, csvfile, now, faults, op, keep_history, unreadable>>

StartWith(env) ==
    /\ pc \in {"idle", "done"}
    /\ load_configuration(env) = "ok"
    /\ config' = env
    /\ resume_mode' = csvfile.exists
    /\ canceled_orders' = {}
    /\ pending_order_ids' =
          IF csvfile.exists /\ ~LoadRaises THEN get_pending_orders_from_csv(csvfile) ELSE {}
    /\ non_canceled_payments' = <<>>
    /\ order_to_payment_map' = <<>>
    /\ idx' = 0
    /\ outcome' = NoOutcome
    /\ stats' = NoStats
    /\ fatal' = LoadRaises
    /\ IF LoadRaises
       THEN pc' = "done" /\ exit_code' = 1
       ELSE IF csvfile.exists
       THEN IF get_pending_orders_from_csv(csvfile) = {}
            THEN pc' = "done" /\ exit_code' = 0
            ELSE pc' = "lookup" /\ exit_code' = -1
       ELSE pc' = "fetch" /\ exit_code' = -1
    /\ start_file' = csvfile
    /\ api_called' = {}
    /\ after_done' = (pc = "done" /\ ~fatal)
    /\ run_parity' = 1 - run_parity
    /\ called_earlier' = IF keep_history THEN called_earlier \cup api_called ELSE {}
    /\ killed_calls' = IF pc = "done" /\ load_configuration(config) = "ok"
                       THEN {} ELSE killed_calls
    /\ UNCHANGED <<magento, canceled, csvfile, now, faults, op, keep_history, unreadable>>

StartRun == \E env \in Configs : StartWith(env)

\* main, lines 458-460 and 565-567: load_configuration raises, the exception
\* is logged as fatal and the process exits with status 1.
ConfigError ==
    /\ pc \in {"idle", "done"}
    /\ \E env \in Configs : load_configuration(env) # "ok" /\ config' = env
    /\ resume_mode' = FALSE
    /\ canceled_orders' = {}
    /\ pending_order_ids' = {}
    /\ non_canceled_payments' = <<>>
    /\ order_to_payment_map' = <<>>
    /\ idx' = 0
    /\ outcome' = NoOutcome
    /\ stats' = NoStats
    /\ fatal' = TRUE
    /\ pc' = "done"
    /\ exit_code' = 1
    /\ start_file' = csvfile
    /\ api_called' = {}
    /\ after_done' = FALSE
    /\ run_parity' = 1 - run_parity
    /\ called_earlier' = IF keep_history THEN called_earlier \cup api_called ELSE {}
    /\ UNCHANGED <<magento, canceled, csvfile, now, faults, op, keep_history,
                   killed_calls, unreadable>>

\* main, line 524: step 1 returns the canceled orders and seeds the file.
Fetch ==
    /\ pc = "fetch"
    /\ canceled_orders' = magento
    /\ csvfile' = get_canceled_orders_from_magento(csvfile, magento, now)
    /\ pc' = "lookup"
    /\ UNCHANGED <<magento, canceled, now, config, resume_mode, pending_order_ids,
                   non_canceled_payments, order_to_payment_map, idx, outcome, stats,
                   exit_code, fatal, faults, start_file, api_called, after_done,
                   run_parity, op, keep_history, called_earlier, killed_calls,
                   unreadable>>

\* main, lines 565-567: an exception of a step is logged and the process exits
\* with status 1.
Abort ==
    /\ pc' = "done"
    /\ exit_code' = 1
    /\ fatal' = TRUE
    /\ faults' = faults + 1
    /\ UNCHANGED <<magento, canceled, csvfile, now, config, resume_mode, canceled_orders,
                   pending_order_ids, non_canceled_payments, order_to_payment_map,
                   idx, outcome, stats, start_file, api_called, after_done,
                   run_parity, op, keep_history, called_earlier, killed_calls,
                   unreadable>>

\* get_canceled_orders_from_magento, lines 289-291: the connection or the
\* query fails and the exception is raised again.
FetchFails ==
    /\ pc = "fetch"
    /\ faults < MaxFaults
    /\ Abort

\* faulty variant: step 2 queries and saves also when it has no order ids
LookupAlwaysQuerying ==
    /\ pc = "lookup"
    /\ \E results \in Orderings(PapayaQuery(LookupOrderIds, canceled)) :
            /\ non_canceled_payments' = results
            /\ order_to_payment_map' = OrderToPaymentMap(results)
            /\ csvfile' = get_non_canceled_payments_from_papaya(
                              csvfile, LookupOrderIds, OrderToPaymentMap(results), now)
            /\ idx' = IF results = <<>> THEN 0 ELSE 1
            /\ stats' = [NoStats EXCEPT !.total = Len(results)]
            /\ pc' = IF results = <<>> THEN "summary" ELSE "call"
    /\ UNCHANGED <<magento, canceled, now, config, resume_mode, canceled_orders,
                   pending_order_ids, outcome, exit_code, fatal, faults, start_file,
                   api_called, after_done, run_parity, op,
                   keep_history, called_earlier, killed_calls,
                   unreadable>>

\* main, lines 505-513 and 527-535: step 2.  With no order ids it returns
\* ([], {}) without a query; otherwise the result rows come in some order,
\* the file is updated, and step 3 starts (it returns at once on an empty list).
Lookup ==
    /\ pc = "lookup"
    /\ IF LookupOrderIds = {}
       THEN /\ pc' = "summary"
            /\ UNCHANGED <<csvfile, non_canceled_payments, order_to_payment_map, idx, stats>>
       ELSE \E results \in Orderings(PapayaQuery(LookupOrderIds, canceled)) :
            /\ non_canceled_payments' = results
            /\ order_to_payment_map' = OrderToPaymentMap(results)
            /\ csvfile' = get_non_canceled_payments_from_papaya(
                              csvfile, LookupOrderIds, OrderToPaymentMap(results), now)
            /\ idx' = IF results = <<>> THEN 0 ELSE 1
            /\ stats' = [NoStats EXCEPT !.total = Len(results)]
            /\ pc' = IF results = <<>> THEN "summary" ELSE "call"
    /\ UNCHANGED <<magento, canceled, now, config, resume_mode, canceled_orders,
                   pending_order_ids, outcome, exit_code, fatal, faults, start_file,
                   api_called, after_done, run_parity, op,
                   keep_history, called_earlier, killed_calls,
                   unreadable>>

\* faulty variant: the file is rewritten before the query's failure is raised
LookupFailsAfterWrite ==
    /\ pc = "lookup"
    /\ LookupOrderIds # {}
    /\ faults < MaxFaults
    /\ csvfile' = get_non_canceled_payments_from_papaya(csvfile, LookupOrderIds, <<>>, now)
    /\ pc' = "done"
    /\ exit_code' = 1
    /\ fatal' = TRUE
    /\ faults' = faults + 1
    /\ UNCHANGED <<magento, canceled, now, config, resume_mode, canceled_orders,
                   pending_order_ids, non_canceled_payments, order_to_payment_map,
                   idx, outcome, stats, start_file, api_called, after_done,
                   run_parity, op, keep_history, called_earlier, killed_calls,
                   unreadable>>

\* get_non_canceled_payments_from_papaya, lines 360-362: the connection or the
\* query fails and the exception is raised again.
LookupFails ==
    /\ pc = "lookup"
    /\ LookupOrderIds # {}
    /\ faults < MaxFaults
    /\ Abort

\* cancel_payments_via_api, lines 422-432: the API is called for the next
\* payment id; a successful call cancels the payment in Papaya.
ApiCall ==
    /\ pc = "call"
    /\ \E response \in Responses :
          LET payment_id == non_canceled_payments[idx]
              result == cancel_payment_via_api(response)
          IN /\ outcome' = result
             /\ stats' = CountOutcome(stats, payment_id, result)
             /\ canceled' = IF result.success THEN canceled \cup {payment_id} ELSE canceled
             /\ api_called' = api_called \cup {payment_id}
    /\ pc' = "record"
    /\ UNCHANGED <<magento, csvfile, now, config, resume_mode, canceled_orders,
                   pending_order_ids, non_canceled_payments, order_to_payment_map,
                   idx, exit_code, fatal, faults, start_file, after_done,
                   run_parity, op, keep_history, called_earlier, killed_calls,
                   unreadable>>

\* faulty variant: the loop ends at the first failed call
RecordAndStopOnFailure ==
    /\ pc = "record"
    /\ csvfile' = RecordOutcome(csvfile, non_canceled_payments[idx],
                                PaymentToOrderMap(order_to_payment_map), outcome, now)
    /\ outcome' = NoOutcome
    /\ idx' = idx + 1
    /\ pc' = IF idx = Len(non_canceled_payments) \/ ~outcome.success
             THEN "summary" ELSE "call"
    /\ UNCHANGED <<magento, canceled, now, config, resume_mode, canceled_orders,
                   pending_order_ids, non_canceled_payments, order_to_payment_map,
                   stats, exit_code, fatal, faults, start_file, api_called,
                   after_done, run_parity, op, keep_history, called_earlier, killed_calls,
                   unreadable>>

\* cancel_payments_via_api, lines 434-442: the outcome is written to the file,
\* then the loop goes on to the next payment id.
Record ==
    /\ pc = "record"
    /\ csvfile' = RecordOutcome(csvfile, non_canceled_payments[idx],
                                PaymentToOrderMap(order_to_payment_map), outcome, now)
    /\ outcome' = NoOutcome
    /\ idx' = idx + 1
    /\ pc' = IF idx = Len(non_canceled_payments) THEN "summary" ELSE "call"
    /\ UNCHANGED <<magento, canceled, now, config, resume_mode, canceled_orders,
                   pending_order_ids, non_canceled_payments, order_to_payment_map,
                   stats, exit_code, fatal, faults, start_file, api_called,
                   after_done, run_parity, op, keep_history, called_earlier, killed_calls,
                   unreadable>>

\* main, lines 516-563: the file is loaded again, the summary is logged and the
\* process exits with status 1 when a row is FAILED, else 0.
Summary ==
    /\ pc = "summary"
    /\ exit_code' = ExitStatus(csvfile)
    /\ pc' = "done"
    /\ UNCHANGED <<magento, canceled, csvfile, now, config, resume_mode, canceled_orders,
                   pending_order_ids, non_canceled_payments, order_to_payment_map,
                   idx, outcome, stats, fatal, faults, start_file, api_called,
                   after_done, run_parity, op, keep_history, called_earlier, killed_calls,
                   unreadable>>

\* No process is running and nothing of the last one is left but the file.
Forgotten ==
    /\ pc' = "idle"
    /\ config' = NoConfig
    /\ resume_mode' = FALSE
    /\ canceled_orders' = {}
    /\ pending_order_ids' = {}
    /\ non_canceled_payments' = <<>>
    /\ order_to_payment_map' = <<>>
    /\ idx' = 0
    /\ outcome' = NoOutcome
    /\ stats' = NoStats
    /\ exit_code' = -1
    /\ fatal' = FALSE
    /\ start_file' = NoFile
    /\ api_called' = {}
    /\ after_done' = FALSE
    /\ called_earlier' = IF keep_history THEN called_earlier \cup api_called ELSE {}

\* The process is killed between two steps: its memory is lost, the file stays.
Kill ==
    /\ pc \in Running
    /\ faults < MaxFaults
    /\ faults' = faults + 1
    /\ killed_calls' = IF keep_history THEN api_called ELSE {}
    /\ Forgotten
    /\ UNCHANGED <<magento, canceled, csvfile, now, run_parity, op, keep_history, unreadable>>

\* Between two runs one more order is canceled in Magento.
MagentoCancels ==
    /\ pc \in {"idle", "done"}
    /\ \E o \in Orders \ magento : magento' = magento \cup {o}
    /\ killed_calls' = IF pc = "done" THEN {} ELSE killed_calls
    /\ Forgotten
    /\ UNCHANGED <<canceled, csvfile, now, faults, run_parity, op, keep_history, unreadable>>

\* The clock advances.  No step of the pipeline reads a timestamp or the
\* clock, so the clock stands still in Spec and advances in CrashSpec and
\* StampSpec only.
Tick ==
    /\ now < MaxClock
    /\ now' = now + 1
    /\ UNCHANGED <<magento, canceled, csvfile, pc, config, resume_mode, canceled_orders,
                   pending_order_ids, non_canceled_payments, order_to_payment_map,
                   idx, outcome, stats, exit_code, fatal, faults, start_file,
                   api_called, after_done, run_parity, op,
                   keep_history, called_earlier, killed_calls,
                   unreadable>>

RunStep == StartRun \/ Fetch \/ Lookup \/ ApiCall \/ Record \/ Summary

Next ==
    \/ StartRun
    \/ ConfigError
    \/ Fetch
    \/ FetchFails
    \/ Lookup
    \/ LookupFails
    \/ ApiCall
    \/ Record
    \/ Summary
    \/ Kill
    \/ MagentoCancels

Spec == Init /\ [][Next]_vars

\* The operator re-runs the program again and again: a step of the program
\* that can be taken is eventually taken.  Kills and query failures are
\* bounded by MaxFaults.
LiveSpec == Init /\ [][Next]_vars /\ WF_vars(RunStep)

\* The same program, with the cancel API calls of earlier runs remembered
\* (called_earlier, killed_calls): the histories are not read by any step.
HistInit == Boot /\ keep_history = TRUE

HistSpec == HistInit /\ [][Next]_vars

\* ------------------------------------------------------------- dates with one-digit fields
\* The program is started with a date such as 2024-1-5 in the environment.
StartRunUnpadded == \E env \in UnpaddedConfigs : StartWith(env)

EnvNext == Next \/ StartRunUnpadded

EnvSpec == Init /\ [][EnvNext]_vars

\* ------------------------------------------------------------- kills inside a save, unreadable files
\* The files the step at pc may hand to save_orders_to_csv: none when the step
\* returns without saving.
Rewrites ==
    CASE pc = "fetch" /\ magento # {} ->
            {get_canceled_orders_from_magento(csvfile, magento, now)}
      [] pc = "lookup" /\ LookupOrderIds # {} ->
            {get_non_canceled_payments_from_papaya(
                 csvfile, LookupOrderIds, OrderToPaymentMap(results), now) :
               results \in Orderings(PapayaQuery(LookupOrderIds, canceled))}
      [] pc = "record"
         /\ non_canceled_payments[idx] \in DOMAIN PaymentToOrderMap(order_to_payment_map)
         /\ PaymentToOrderMap(order_to_payment_map)[non_canceled_payments[idx]]
               \in DOMAIN load_orders_from_csv(csvfile) ->
            {RecordOutcome(csvfile, non_canceled_payments[idx],
                           PaymentToOrderMap(order_to_payment_map), outcome, now)}
      [] OTHER -> {}

\* save_orders_to_csv, lines 174-188: open(csv_filename, 'w') empties the file,
\* then the header and the rows are written one after the other.  After a
\* kill in between the file holds the first k rows of the new content.
TornFile(new, k) == [exists |-> TRUE, rows |-> SubSeq(new.rows, 1, k)]

KillInSave ==
    /\ pc \in Running
    /\ faults < MaxFaults
    /\ \E new \in Rewrites :
       \E k \in 0..(Len(new.rows) - 1) :
          csvfile' = TornFile(new, k)
    /\ faults' = faults + 1
    /\ killed_calls' = IF keep_history THEN api_called ELSE {}
    /\ Forgotten
    /\ UNCHANGED <<magento, canceled, now, run_parity, op, keep_history, unreadable>>

\* Between two runs the file becomes unreadable (bytes that are not UTF-8, a
\* header without the order_id column over data rows, no read permission):
\* open, the decoding or row['order_id'] raises in load_orders_from_csv.
Corrupt ==
    /\ pc \in {"idle", "done"}
    /\ csvfile.exists
    /\ ~unreadable
    /\ faults < MaxFaults
    /\ faults' = faults + 1
    /\ unreadable' = TRUE
    /\ killed_calls' = IF pc = "done" THEN {} ELSE killed_calls
    /\ Forgotten
    /\ UNCHANGED <<magento, canceled, csvfile, now, run_parity, op, keep_history>>

\* save_orders_to_csv, lines 190-192, called from update_order_in_csv in the
\* loop of cancel_payments_via_api: open or a write raises (no permission, disk
\* full), the exception is logged and raised again.  Neither
\* update_order_in_csv nor the loop catches it, so it reaches main's handler
\* (lines 565-567).  The file is what it was when open raised, else the first
\* k rows of the new content.
RecordFails ==
    /\ pc = "record"
    /\ faults < MaxFaults
    /\ \E new \in Rewrites :
       \E file \in {csvfile} \cup {TornFile(new, k) : k \in 0..(Len(new.rows) - 1)} :
          csvfile' = file
    /\ pc' = "done"
    /\ exit_code' = 1
    /\ fatal' = TRUE
    /\ faults' = faults + 1
    /\ UNCHANGED <<magento, canceled, now, config, resume_mode, canceled_orders,
                   pending_order_ids, non_canceled_payments, order_to_payment_map,
                   idx, outcome, stats, start_file, api_called, after_done,
                   run_parity, op, keep_history, called_earlier, killed_calls,
                   unreadable>>

CrashNext == Next \/ KillInSave \/ RecordFails \/ Corrupt \/ Tick

CrashSpec == Init /\ [][CrashNext]_vars

\* ------------------------------------------------------------- the ledger functions called directly
\* The ledger functions are module-level functions; here they are applied one
\* at a time and in any order to the file: a seed with any set of orders, a
\* lookup of any order, an update of any order.
LedgerFrame ==
    UNCHANGED <<magento, canceled, now, pc, config, resume_mode, canceled_orders,
                pending_order_ids, non_canceled_payments, order_to_payment_map, idx,
                outcome, stats, exit_code, fatal, faults, start_file, api_called,
                after_done, run_parity, keep_history, called_earlier, killed_calls,
                unreadable>>

\* get_canceled_orders_from_magento(config, csv_filename) with the query
\* returning increment_ids
LedgerSeed ==
    /\ \E increment_ids \in SUBSET Orders :
          /\ csvfile' = get_canceled_orders_from_magento(csvfile, increment_ids, now)
          /\ op' = [NoOp EXCEPT !.name = "seed", !.order_ids = increment_ids,
                                !.before = csvfile]
    /\ LedgerFrame

\* the maps the Papaya query can yield for order_ids, whatever is canceled:
\* some of the orders, each with one of its payments
PossibleMaps(order_ids) ==
    UNION {{o2p \in [os -> Payments] : \A o \in os : ClientOrderId(o2p[o]) = o} :
              os \in SUBSET order_ids}

\* get_non_canceled_payments_from_papaya(config, order_ids, csv_filename), for
\* one order at a time: the function treats each order of order_ids on its own
LedgerLookup ==
    /\ \E order_id \in Orders :
       \E o2p \in PossibleMaps({order_id}) :
          /\ csvfile' = get_non_canceled_payments_from_papaya(csvfile, {order_id}, o2p, now)
          /\ op' = [NoOp EXCEPT !.name = "lookup", !.order_ids = {order_id},
                                !.before = csvfile]
    /\ LedgerFrame

\* the outcomes a caller writes for an order: a status with the id of one of
\* the order's payments and an error message
Outcomes(order_id) ==
    LET ps == {p \in Payments : ClientOrderId(p) = order_id}
    IN {[cancellation_attempted |-> PyBool(TRUE), cancellation_status |-> "SUCCESS",
         payment_id |-> PyInt(p), error_message |-> ""] : p \in ps}
       \cup
       {[cancellation_attempted |-> PyBool(TRUE), cancellation_status |-> "FAILED",
         payment_id |-> PyInt(p), error_message |-> "boom"] : p \in ps}

\* update_order_in_csv(csv_filename, order_id, updates)
LedgerUpdate ==
    /\ \E order_id \in Orders :
       \E updates \in Outcomes(order_id) :
          /\ csvfile' = update_order_in_csv(csvfile, order_id, updates, now)
          /\ op' = [NoOp EXCEPT !.name = "update", !.order_id = order_id,
                                !.updates = updates, !.before = csvfile]
    /\ LedgerFrame

LedgerNext == LedgerSeed \/ LedgerLookup \/ LedgerUpdate

LedgerInit == Init /\ magento = {} /\ canceled = {}

LedgerSpec == LedgerInit /\ [][LedgerNext]_vars

\* The ledger functions called at different times, so that the rows of a file
\* carry different timestamps.  Of the operation applied last only this is
\* kept: whether it was an update, and of which order.
StampSeed ==
    /\ \E increment_ids \in SUBSET Orders :
          csvfile' = get_canceled_orders_from_magento(csvfile, increment_ids, now)
    /\ op' = NoOp
    /\ LedgerFrame

StampLookup ==
    /\ \E order_id \in Orders :
       \E o2p \in PossibleMaps({order_id}) :
          csvfile' = get_non_canceled_payments_from_papaya(csvfile, {order_id}, o2p, now)
    /\ op' = NoOp
    /\ LedgerFrame

StampUpdate ==
    /\ \E order_id \in Orders :
       \E updates \in Outcomes(order_id) :
          /\ csvfile' = update_order_in_csv(csvfile, order_id, updates, now)
          /\ op' = [NoOp EXCEPT !.name = "update", !.order_id = order_id]
    /\ LedgerFrame

StampNext == StampSeed \/ StampLookup \/ StampUpdate \/ Tick

StampSpec == LedgerInit /\ [][StampNext]_vars

\* ------------------------------------------------------------- the cancel operation called directly
\* cancel_payment_via_api(config, payment_id) applied to any payment id, with
\* any answer of requests.post: a status code with a JSON or a plain body, a
\* timeout, another RequestException.
StatusCodes == {200, 201, 202, 204, 301, 400, 401, 404, 409, 500, 503}

ApiResponses ==
    {[exc |-> "", status_code |-> c, is_json |-> b.is_json, text |-> b.text,
      parsed |-> b.parsed] :
        c \in StatusCodes,
        b \in {[is_json |-> TRUE, text |-> "{}", parsed |-> "{}"],
               [is_json |-> TRUE, text |-> "null", parsed |-> "None"],
               [is_json |-> FALSE, text |-> "boom", parsed |-> ""],
               [is_json |-> FALSE, text |-> "", parsed |-> ""]}}
    \cup
    {[exc |-> "Timeout", status_code |-> 0, is_json |-> FALSE, text |-> "", parsed |-> ""]}
    \cup
    {[exc |-> "RequestException", status_code |-> 0, is_json |-> FALSE,
      text |-> t, parsed |-> ""] : t \in {"", "refused"}}

ApiClassify ==
    /\ \E payment_id \in Payments :
       \E response \in ApiResponses :
          /\ non_canceled_payments' = <<payment_id>>
          /\ idx' = 1
          /\ outcome' = cancel_payment_via_api(response)
          /\ op' = [NoOp EXCEPT !.name = "cancel", !.updates = response]
    /\ UNCHANGED <<magento, canceled, csvfile, now, pc, config, resume_mode,
                   canceled_orders, pending_order_ids, order_to_payment_map, stats,
                   exit_code, fatal, faults, start_file, api_called, after_done,
                   run_parity, keep_history, called_earlier, killed_calls,
                   unreadable>>

ApiSpec == LedgerInit /\ [][ApiClassify]_vars

\* ------------------------------------------------------------- vocabulary of the claims
Terminal == {"SUCCESS", "FAILED", "NOT_REQUIRED"}

Ledger == load_orders_from_csv(csvfile)
StartLedger == load_orders_from_csv(start_file)

\* the payments the cancel API call of this run failed for, from stats
FailedPayments == {stats.errors[i].payment_id : i \in 1..Len(stats.errors)}
ErrorOf(p) == (CHOOSE i \in 1..Len(stats.errors) : stats.errors[i].payment_id = p)

\* the three outcome fields of a loaded row
OutcomeOf(order) ==
    <<order.cancellation_status, CsvStr(order.payment_id), order.error_message>>

\* ------------------------------------------------------------- C1
\* C1: at the start of a run over an existing ledger the orders selected for
\* processing are exactly the candidate orders with no ledger record plus the
\* ledger orders whose status is PENDING.
C1_ResumeCorrectness ==
    (pc # "idle" /\ resume_mode) =>
        pending_order_ids =
            (magento \ DOMAIN StartLedger)
            \cup {o \in DOMAIN StartLedger : StartLedger[o].cancellation_status = "PENDING"}

\* ------------------------------------------------------------- C2
\* C2: an order whose record is terminal when a run starts is not selected as
\* pending by that run, is not part of its payment lookup, and no cancel API
\* call is issued for a payment of that order.
C2_NoDoubleProcessing ==
    pc # "idle" =>
        \A o \in DOMAIN StartLedger :
            StartLedger[o].cancellation_status \in Terminal =>
                /\ o \notin pending_order_ids
                /\ o \notin LookupOrderIds
                /\ \A i \in 1..Len(non_canceled_payments) :
                      /\ ClientOrderId(non_canceled_payments[i]) # o
                      /\ ToString(non_canceled_payments[i]) # StartLedger[o].payment_id.s
                /\ \A p \in api_called :
                      /\ ClientOrderId(p) # o
                      /\ ToString(p) # StartLedger[o].payment_id.s

\* a resumed run that started with a terminal record has called the API
C2_Witness ==
    /\ pc = "record"
    /\ resume_mode
    /\ api_called # {}
    /\ \E o \in DOMAIN StartLedger :
          StartLedger[o].cancellation_status \in {"SUCCESS", "FAILED"}

\* ------------------------------------------------------------- C3
\* a run was killed, or aborted by a query failure, and left a ledger behind
Interrupted == csvfile.exists /\ faults > 0 /\ (pc = "idle" \/ (pc = "done" /\ fatal))

AllTerminal == \A o \in DOMAIN Ledger : Ledger[o].cancellation_status \in Terminal

\* C3: from any ledger a killed or aborted run leaves behind, re-running the
\* program again and again eventually brings every registered order to a
\* terminal status.
C3_Convergence == Interrupted ~> AllTerminal

\* ------------------------------------------------------------- C4
\* C4: a run that ends without a fatal exception exits with status 0 exactly
\* when no order of the ledger is FAILED at the end of the run, and non-zero
\* otherwise.
C4_ExitStatus ==
    (pc = "done" /\ ~fatal) =>
        /\ exit_code \in {0, 1}
        /\ exit_code = 0 <=>
              ~\E o \in DOMAIN Ledger : Ledger[o].cancellation_status = "FAILED"

\* ------------------------------------------------------------- C5
StatusIn(orders_data, o) ==
    IF o \in DOMAIN orders_data THEN orders_data[o].cancellation_status ELSE "absent"

Lifecycle ==
    {<<"absent", "PENDING">>, <<"PENDING", "NOT_REQUIRED">>,
     <<"PENDING", "SUCCESS">>, <<"PENDING", "FAILED">>}

\* C5: a record's status only ever changes absent -> PENDING, PENDING ->
\* NOT_REQUIRED, PENDING -> SUCCESS or PENDING -> FAILED, and no step changes
\* the status, payment id or error message of a terminal record.
C5_Lifecycle ==
    [][csvfile' # csvfile =>
        LET before == load_orders_from_csv(csvfile)
            after == load_orders_from_csv(csvfile')
        IN \A o \in Orders :
              /\ StatusIn(before, o) # StatusIn(after, o) =>
                    <<StatusIn(before, o), StatusIn(after, o)>> \in Lifecycle
              /\ StatusIn(before, o) \in Terminal =>
                    OutcomeOf(after[o]) = OutcomeOf(before[o])]_vars

\* a resumed run that started with a terminal record has rewritten the ledger
C5_Witness ==
    /\ pc = "done"
    /\ resume_mode
    /\ csvfile # start_file
    /\ \E o \in DOMAIN StartLedger : StartLedger[o].cancellation_status \in Terminal

\* ------------------------------------------------------------- C6
\* C6: seeding the ledger with the fetched orders leaves every record already
\* in the ledger as it was (status, payment id, error message) and only adds
\* the orders not yet present, as PENDING.
C6_NonClobberingRegistration ==
    op.name = "seed" =>
        LET before == load_orders_from_csv(op.before)
        IN /\ \A o \in DOMAIN before :
                 /\ o \in DOMAIN Ledger
                 /\ OutcomeOf(Ledger[o]) = OutcomeOf(before[o])
           /\ \A o \in DOMAIN Ledger \ DOMAIN before :
                 /\ o \in op.order_ids
                 /\ Ledger[o].cancellation_status = "PENDING"

\* ------------------------------------------------------------- C7
\* C7: every run registers each candidate order of the order system that has
\* no ledger record, also when the ledger already exists.
C7_RegistersCandidates ==
    (pc = "done" /\ ~fatal) => magento \subseteq DOMAIN Ledger

\* ------------------------------------------------------------- C8
\* C8: a run that follows a completed run, the source unchanged, issues no
\* cancel API call and leaves the same records with the same status, payment
\* id and error message, one record per order.
C8_IdempotentRerun ==
    (pc = "done" /\ ~fatal /\ after_done) =>
        /\ api_called = {}
        /\ csvfile.exists = start_file.exists
        /\ DOMAIN Ledger = DOMAIN StartLedger
        /\ \A o \in DOMAIN Ledger : OutcomeOf(Ledger[o]) = OutcomeOf(StartLedger[o])
        /\ Len(csvfile.rows) = Cardinality(DOMAIN Ledger)

\* the second run has ended over a ledger in which the first recorded cancel outcomes
C8_Witness ==
    /\ pc = "done"
    /\ ~fatal
    /\ after_done
    /\ \E o \in DOMAIN StartLedger : StartLedger[o].cancellation_status = "SUCCESS"
    /\ \E o \in DOMAIN StartLedger : StartLedger[o].cancellation_status = "NOT_REQUIRED"

\* ------------------------------------------------------------- C9
\* C9: after an uninterrupted run that starts with no ledger, every returned
\* order whose lookup returned a payment is SUCCESS with that payment id when
\* the cancel call succeeded and FAILED with that payment id and the failure
\* detail when it failed; every other returned order is NOT_REQUIRED; and the
\* exit code is 0 when every call succeeded and 1 when one failed.  (For an
\* order with several payments: SUCCESS with one of them when every call for
\* it succeeded, FAILED with a failed one and its detail when one failed.)
C9_FreshRunOutcome ==
    (pc = "done" /\ ~fatal /\ ~resume_mode) =>
        /\ \A o \in canceled_orders :
              /\ o \in DOMAIN Ledger
              /\ LET ps == {p \in SeqRange(non_canceled_payments) : ClientOrderId(p) = o}
                 IN IF ps = {}
                    THEN Ledger[o].cancellation_status = "NOT_REQUIRED"
                    ELSE IF ps \cap FailedPayments = {}
                    THEN \E p \in ps :
                            OutcomeOf(Ledger[o]) = <<"SUCCESS", ToString(p), "">>
                    ELSE \E p \in ps \cap FailedPayments :
                            OutcomeOf(Ledger[o])
                                = <<"FAILED", ToString(p), stats.errors[ErrorOf(p)].error>>
        /\ exit_code = IF stats.failed > 0 THEN 1 ELSE 0

\* ------------------------------------------------------------- C10
\* C10: writing an outcome (status, payment id, error message) for an order
\* id, present in the ledger or not, and loading the ledger yields a record of
\* that order with exactly the written values.
C10_WriteThenRead ==
    op.name = "update" =>
        /\ op.order_id \in DOMAIN Ledger
        /\ OutcomeOf(Ledger[op.order_id])
              = <<op.updates.cancellation_status, CsvStr(op.updates.payment_id),
                  op.updates.error_message>>

\* ------------------------------------------------------------- C11
\* C11: the ledger file never holds two rows of one order id; a write for an
\* order id that has a row replaces it (a load returns the written status and
\* payment id) and leaves the number of rows unchanged.
C11_UpdateInPlace ==
    /\ \A i, j \in 1..Len(csvfile.rows) :
          csvfile.rows[i].order_id = csvfile.rows[j].order_id => i = j
    /\ (op.name = "update" /\ op.order_id \in DOMAIN load_orders_from_csv(op.before)) =>
          /\ Ledger[op.order_id].cancellation_status = op.updates.cancellation_status
          /\ Ledger[op.order_id].payment_id.s = CsvStr(op.updates.payment_id)
          /\ Len(csvfile.rows) = Len(op.before.rows)

\* a FAILED row of a two-row ledger has been overwritten with SUCCESS and
\* another payment id
C11_Witness ==
    /\ op.name = "update"
    /\ Len(op.before.rows) = 2
    /\ op.order_id \in DOMAIN load_orders_from_csv(op.before)
    /\ load_orders_from_csv(op.before)[op.order_id].cancellation_status = "FAILED"
    /\ op.updates.cancellation_status = "SUCCESS"
    /\ load_orders_from_csv(op.before)[op.order_id].payment_id.s
          # CsvStr(op.updates.payment_id)

\* ------------------------------------------------------------- C12
\* C12: every FAILED record has a non-empty error message and every SUCCESS
\* record an empty one, whichever failure the cancel call returned (a status
\* other than 200, a timeout, another request exception).
C12_FailedHasMessage ==
    /\ LET orders_data == Ledger
       IN \A o \in DOMAIN orders_data :
             /\ orders_data[o].cancellation_status = "FAILED" =>
                   orders_data[o].error_message # ""
             /\ orders_data[o].cancellation_status = "SUCCESS" =>
                   orders_data[o].error_message = ""
    /\ \A response \in Responses :
          LET result == cancel_payment_via_api(response)
          IN ~result.success => Updates(result).error_message # ""

\* a run has ended with one record FAILED by a timeout and one by a status 500
C12_Witness ==
    /\ pc = "done"
    /\ \E o1, o2 \in DOMAIN Ledger :
          /\ Ledger[o1].cancellation_status = "FAILED"
          /\ Ledger[o1].error_message = "Request timeout"
          /\ Ledger[o2].cancellation_status = "FAILED"
          /\ Ledger[o2].error_message = "API returned status 500: boom"

\* ------------------------------------------------------------- C13
\* C13: every SUCCESS or FAILED record has a payment id, the id of a payment
\* of that order; while a run is in or past step 3, the record of every order
\* of the lookup's map holds the payment id the map has for it.
C13_PaymentIdPresent ==
    LET orders_data == Ledger
    IN /\ \A o \in DOMAIN orders_data :
             orders_data[o].cancellation_status \in {"SUCCESS", "FAILED"} =>
                /\ orders_data[o].payment_id.s # ""
                /\ \E p \in Payments :
                      ToString(p) = orders_data[o].payment_id.s /\ ClientOrderId(p) = o
       /\ (pc \in {"call", "record", "summary"} \/ (pc = "done" /\ ~fatal)) =>
             \A o \in DOMAIN order_to_payment_map :
                /\ o \in DOMAIN orders_data
                /\ orders_data[o].payment_id.s = ToString(order_to_payment_map[o])

\* a run over three payments has ended with a FAILED and a SUCCESS record
C13_Witness ==
    /\ pc = "done"
    /\ Len(non_canceled_payments) = 3
    /\ 1 \in DOMAIN Ledger /\ 2 \in DOMAIN Ledger
    /\ Ledger[1].cancellation_status = "FAILED" /\ Ledger[1].payment_id.s = "1"
    /\ Ledger[2].cancellation_status = "SUCCESS" /\ Ledger[2].payment_id.s = "3"

\* ------------------------------------------------------------- C14
\* C14: no cancel API call was ever issued, in this run or an earlier one, for
\* a payment of an order whose record is NOT_REQUIRED.
C14_NotRequiredNeverCalled ==
    \A o \in DOMAIN Ledger :
        Ledger[o].cancellation_status = "NOT_REQUIRED" =>
            \A p \in called_earlier \cup api_called : ClientOrderId(p) # o

\* ------------------------------------------------------------- C15
\* the outcome fields a record holds once the call for payment p, made in
\* this run, has been written
WrittenOutcome(p) ==
    IF p \in FailedPayments
    THEN <<"FAILED", stats.errors[ErrorOf(p)].error>>
    ELSE <<"SUCCESS", "">>

\* C15: when the cancel API call for a payment of the work list is about to
\* be issued, the outcome of the call for the payment before it in the list
\* has been written to the record of that payment's order.
C15_WriteAfterEveryCall ==
    (pc = "call" /\ idx > 1) =>
        LET p == non_canceled_payments[idx - 1]
            o == ClientOrderId(p)
        IN /\ o \in DOMAIN Ledger
           /\ <<Ledger[o].cancellation_status, Ledger[o].error_message>> = WrittenOutcome(p)

\* ------------------------------------------------------------- C16
\* C16: when the run that follows a killed run has completed, at most one
\* payment has received a cancel API call in both runs.
C16_BoundedRework ==
    (pc = "done" /\ ~fatal) => Cardinality(api_called \cap killed_calls) <= 1

\* ------------------------------------------------------------- C17
\* C17: after a kill, between two steps or inside a rewrite of the ledger
\* file, the file on disk is the complete version from before the step or the
\* complete version the step was writing.
C17_InterruptedRewrite ==
    [][(pc \in Running /\ pc' = "idle") => csvfile' \in ({csvfile} \cup Rewrites)]_vars

\* ------------------------------------------------------------- C18
\* C18: a run in which a cancel API call returned a failure exits with a
\* status other than 0.
C18_FailureExitsNonZero ==
    (pc = "done" /\ ~fatal /\ stats.failed > 0) => exit_code # 0

\* ------------------------------------------------------------- C19
\* the number of cancel API calls this run has made
CallsMade == stats.success + stats.failed

\* C19: the loop of step 3 calls the API for the payment ids of the work list
\* in list order, once each, and goes on after a failed call: after the loop
\* every payment id of the list has been called exactly once.
C19_EveryPaymentCalledOnce ==
    /\ CallsMade = Cardinality(api_called)
    /\ pc = "call" =>
          api_called = {non_canceled_payments[i] : i \in 1..(idx - 1)}
    /\ pc = "record" =>
          api_called = {non_canceled_payments[i] : i \in 1..idx}
    /\ (pc = "summary" \/ (pc = "done" /\ ~fatal)) =>
          /\ api_called = SeqRange(non_canceled_payments)
          /\ CallsMade = Len(non_canceled_payments)

\* a run over three payments has ended; the first call failed, a later one
\* succeeded
C19_Witness ==
    /\ pc = "done"
    /\ Len(non_canceled_payments) = 3
    /\ stats.failed >= 1
    /\ stats.errors[1].payment_id = non_canceled_payments[1]
    /\ stats.success >= 1

\* ------------------------------------------------------------- C20
\* C20: a run that finds the ledger file unreadable goes on as with an empty
\* ledger: it does not end in the fatal-error branch and does not exit with
\* status 1.
C20_CorruptLedgerFailsSoft ==
    (pc # "idle" /\ load_configuration(config) = "ok" /\ csvfile.exists /\ unreadable) =>
        (~fatal /\ exit_code # 1)

\* ------------------------------------------------------------- C21
\* C21: a run that reached the cancellation step with a work list ends without
\* a fatal error and with the cancel API called for every payment of the list,
\* also when the write that records one payment's outcome failed.
C21_WriteFailureRecovered ==
    (pc = "done" /\ non_canceled_payments # <<>>) =>
        (~fatal /\ SeqRange(non_canceled_payments) \subseteq api_called)

\* ------------------------------------------------------------- C22
\* C22: when the query of step 1 or of step 2 fails, the run ends at once with
\* exit status 1, the file is what it was before the query and no cancel call
\* is made; nothing is called or written after the run has ended that way.
C22_QueryFailureLeavesLedger ==
    [][/\ (pc \in {"fetch", "lookup"} /\ fatal') =>
            /\ pc' = "done" /\ exit_code' = 1
            /\ csvfile' = csvfile
            /\ api_called' = api_called /\ canceled' = canceled
       /\ (pc = "done" /\ fatal) =>
            (csvfile' = csvfile /\ api_called' \subseteq api_called
                                /\ canceled' = canceled)]_vars

\* a fresh run that wrote the seed and then failed in the query of step 2
C22_Witness ==
    /\ pc = "done" /\ fatal /\ exit_code = 1
    /\ load_configuration(config) = "ok"
    /\ ~resume_mode /\ ~start_file.exists
    /\ csvfile.exists /\ canceled_orders # {}
    /\ \A o \in DOMAIN Ledger : Ledger[o].requires_cancellation = PyNone

Canonical(date) == date.fields = "ymd" /\ date.padded

\* C24: in a run whose configuration misses a required setting or has a date
\* that is not written as YYYY-MM-DD, the process exits with a non-zero status
\* and no query, no cancel call and no read or write of the file has happened.
C24_ConfigErrorBeforeIO ==
    (/\ pc # "idle"
     /\ \/ config.missing # {}
        \/ ~Canonical(config.date_from)
        \/ ~Canonical(config.date_to)) =>
        /\ pc = "done" /\ exit_code = 1 /\ fatal
        /\ csvfile = start_file /\ ~resume_mode
        /\ api_called = {} /\ canceled_orders = {} /\ pending_order_ids = {}
        /\ non_canceled_payments = <<>> /\ order_to_payment_map = <<>>

\* ------------------------------------------------------------- C25
\* C25: cancel_payment_via_api returns success exactly when the answer has
\* status code 200; for every other status code, a timeout and any other
\* request exception it returns a failure with a message that is not empty.
C25_OutcomeClassification ==
    op.name = "cancel" =>
        LET response == op.updates
        IN /\ outcome.success <=> (response.exc = "" /\ response.status_code = 200)
           /\ ~outcome.success => outcome.message # ""
           /\ outcome.success => outcome.message = "Success"

\* the answer had status 204 and an empty body that is not JSON
C25_Witness ==
    /\ op.name = "cancel"
    /\ op.updates.exc = "" /\ op.updates.status_code = 204
    /\ ~op.updates.is_json /\ op.updates.text = ""
    /\ ~outcome.success /\ outcome.message = "API returned status 204: "

\* ------------------------------------------------------------- C26
\* C26: step 2 called with no order ids returns an empty payment list and an
\* empty map, does not fail as a query can, and leaves the file as it is.
C26_EmptyInput ==
    [][(pc = "lookup" /\ LookupOrderIds = {} /\ pc' # "idle") =>
          /\ non_canceled_payments' = <<>> /\ order_to_payment_map' = <<>>
          /\ csvfile' = csvfile
          /\ ~fatal' /\ pc' = "summary"]_vars

\* a fresh run found no canceled order: step 2 has returned, there is no file
C26_Witness ==
    /\ pc = "summary" /\ ~resume_mode
    /\ canceled_orders = {} /\ non_canceled_payments = <<>>
    /\ order_to_payment_map = <<>> /\ ~csvfile.exists

\* ------------------------------------------------------------- C27
\* C27: a record becomes SUCCESS (FAILED) only in the write that follows a
\* cancel call for the record's payment id that returned success (a failure),
\* and a record that is SUCCESS or FAILED keeps its status and its payment id;
\* so every SUCCESS or FAILED record was earned by such a call.
C27_LedgerSoundness ==
    [][csvfile' # csvfile =>
        LET before == load_orders_from_csv(csvfile)
            after == load_orders_from_csv(csvfile')
        IN \A o \in Orders :
              /\ (/\ StatusIn(after, o) \in {"SUCCESS", "FAILED"}
                  /\ StatusIn(before, o) # StatusIn(after, o)) =>
                    /\ pc = "record"
                    /\ non_canceled_payments[idx] \in api_called
                    /\ after[o].payment_id = PyStr(ToString(non_canceled_payments[idx]))
                    /\ (StatusIn(after, o) = "SUCCESS") <=> outcome.success
                    /\ (StatusIn(after, o) = "FAILED") <=>
                          non_canceled_payments[idx] \in FailedPayments
              /\ StatusIn(before, o) \in {"SUCCESS", "FAILED"} =>
                    /\ StatusIn(after, o) = StatusIn(before, o)
                    /\ after[o].payment_id = before[o].payment_id]_vars

\* a resumed run started with a SUCCESS record of an earlier run and has
\* written a FAILED record for a payment whose call failed in this run
C27_Witness ==
    /\ pc = "done" /\ resume_mode
    /\ \E o \in DOMAIN StartLedger : StartLedger[o].cancellation_status = "SUCCESS"
    /\ \E o \in DOMAIN Ledger :
          /\ Ledger[o].cancellation_status = "FAILED"
          /\ StartLedger[o].cancellation_status = "PENDING"
          /\ \E p \in api_called \cap FailedPayments :
                Ledger[o].payment_id = PyStr(ToString(p))

\* ------------------------------------------------------------- C28
\* C28: in every record of the file, cancellation_attempted is True exactly
\* when the status is SUCCESS or FAILED; requires_cancellation is False exactly
\* when the status is NOT_REQUIRED, and then the payment id is empty; a record
\* with requires_cancellation True has a payment id; and a record with
\* requires_cancellation None is PENDING and not attempted.
C28_FieldConsistency ==
    LET orders_data == Ledger
    IN \A o \in DOMAIN orders_data :
          LET order == orders_data[o]
          IN /\ IsTrue(order.cancellation_attempted) <=>
                   order.cancellation_status \in {"SUCCESS", "FAILED"}
             /\ order.requires_cancellation = PyBool(FALSE) <=>
                   order.cancellation_status = "NOT_REQUIRED"
             /\ order.cancellation_status = "NOT_REQUIRED" =>
                   CsvStr(order.payment_id) = ""
             /\ IsTrue(order.requires_cancellation) => CsvStr(order.payment_id) # ""
             /\ order.requires_cancellation = PyNone =>
                   /\ order.cancellation_status = "PENDING"
                   /\ ~IsTrue(order.cancellation_attempted)

\* a run has ended with one record SUCCESS and another NOT_REQUIRED
C28_Witness ==
    /\ pc = "done"
    /\ \E o \in DOMAIN Ledger : Ledger[o].cancellation_status = "SUCCESS"
    /\ \E o \in DOMAIN Ledger : Ledger[o].cancellation_status = "NOT_REQUIRED"

C30_ResumeRechecks ==
    (/\ resume_mode
     /\ pc \in {"call", "record", "summary"} \/ (pc = "done" /\ ~fatal)
     /\ pending_order_ids # {}) =>
        LET orders_data == Ledger
            started == StartLedger
        IN /\ \A i \in 1..Len(non_canceled_payments) :
                 ClientOrderId(non_canceled_payments[i]) \in pending_order_ids
           /\ DOMAIN order_to_payment_map \subseteq pending_order_ids
           /\ \A o \in pending_order_ids \ DOMAIN order_to_payment_map :
                 /\ o \in DOMAIN orders_data
                 /\ orders_data[o].cancellation_status = "NOT_REQUIRED"
                 /\ orders_data[o].requires_cancellation = PyBool(FALSE)
                 /\ orders_data[o].payment_id = PyStr("")
                 /\ \A p \in api_called : ClientOrderId(p) # o
           /\ \A o \in DOMAIN started \ pending_order_ids :
                 o \in DOMAIN orders_data /\ orders_data[o] = started[o]

\* a resumed run has ended; an order that required cancellation when the run
\* started is NOT_REQUIRED now, next to a record the run did not touch
C30_Witness ==
    /\ pc = "done" /\ ~fatal /\ resume_mode
    /\ \E o \in pending_order_ids :
          /\ IsTrue(StartLedger[o].requires_cancellation)
          /\ StartLedger[o].payment_id # PyStr("")
          /\ Ledger[o].cancellation_status = "NOT_REQUIRED"
    /\ DOMAIN StartLedger \ pending_order_ids # {}

====
